---- MODULE Spec2Model ----
(***************************************************************************)
(* Model of src/src/components/InventoryApp.tsx (the component defined at *)
(* lines 167-483): the localStorage item store, the React state of        *)
(* InventoryApp, its event handlers, and the browser event loop that      *)
(* schedules the asynchronous parts (timers, promise continuations, the   *)
(* camera decode callbacks).                                              *)
(*                                                                         *)
(* Strings are sequences of one-character strings, so that                *)
(* String.includes and String.toLowerCase are computed, not assumed.      *)
(***************************************************************************)
EXTENDS Integers, Sequences, FiniteSets, TLC

VARIABLES
    store,          \* localStorage 'items', as the parsed array
    now,            \* the value Date.now() returns
    ops,            \* asynchronous calls in flight, in creation order
    items,          \* useState items
    filteredItems,  \* useState filteredItems
    loading,        \* useState loading
    error,          \* useState error
    editItem,       \* useState editItem: <<>> is null, <<i>> is the item i
    isDialogOpen,   \* useState isDialogOpen
    snackbar,       \* useState snackbar
    search,         \* useState search
    isScannerOpen,  \* useState isScannerOpen
    sessions,       \* the initScanner calls made so far, one record each
    focused,        \* TRUE when the hidden keyboard-wedge input has focus
    unhandled,      \* TRUE once a promise rejection went unhandled
    calls,          \* number of api.addItem/updateItem/deleteItem calls made
    serial,         \* history: the stored list if every write had been
                    \*          applied to the list as it is at the write
    last            \* history: the last step taken

vars == <<store, now, ops, items, filteredItems, loading, error, editItem,
          isDialogOpen, snackbar, search, isScannerOpen, sessions, focused,
          unhandled, calls, serial, last>>

----------------------------------------------------------------------------
(* Bounds of the model *)

\* Date.now() at the time the component mounts
ClockStart == 3
\* api.addItem / updateItem / deleteItem calls explored
MaxCalls == 2
\* the same, in the longer runs of SpecStoreDeep
MaxCallsDeep == 3
\* asynchronous store calls in flight at once
MaxInFlight == 2
\* initScanner calls explored
MaxSessions == 2
\* clock readings explored between two timer deadlines
MaxSkew == 1
\* length of the stored lists the filter is applied to in SpecFilter
FilterMaxLen == 3

\* setTimeout(resolve, 1000) in api.getItems
TimerDelay == 1000

----------------------------------------------------------------------------
(* Strings *)

EmptyStr == <<>>

\* item.barcode of an item stored without the optional field
Undefined == <<"undefined">>

\* mutant of ToLowerCase: the case is kept
KeepCase(s) == s

ToLowerChar(c) ==
    CASE c = "A" -> "a"
      [] c = "B" -> "b"
      [] OTHER -> c

\* String.prototype.toLowerCase
ToLowerCase(s) == [i \in 1..Len(s) |-> ToLowerChar(s[i])]

\* String.prototype.includes
Includes(s, q) ==
    \E k \in 0..(Len(s) - Len(q)) :
        \A j \in 1..Len(q) : s[k + j] = q[j]

\* JavaScript truthiness of a string value (or undefined)
TruthyStr(s) == s # EmptyStr /\ s # Undefined

----------------------------------------------------------------------------
(* Items *)

Item(id, name, quantity, barcode) ==
    [id |-> id, name |-> name, quantity |-> quantity, barcode |-> barcode]

NoItem == <<>>

InitialItems == << Item(ClockStart - 1, <<"A">>, 1, <<"x">>) >>

\* JSON.parse(localStorage.getItem('items') || '[]') when the component mounts:
\* nothing stored yet, or items stored by earlier runs (ids are earlier clock
\* values, all different)
InitialStores == { <<>>, InitialItems }

\* items.find(...) : index of the first element satisfying Test, 0 if none
FindIndex(list, Test(_)) ==
    IF \E i \in 1..Len(list) : Test(list[i])
    THEN CHOOSE i \in 1..Len(list) :
            Test(list[i]) /\ \A j \in 1..(i - 1) : ~Test(list[j])
    ELSE 0

----------------------------------------------------------------------------
(* api: whole-list read-modify-write on localStorage *)

\* mutant of AddItemList: the new item is put first
AddItemListFront(list, fields, clock) ==
    <<Item(clock, fields.name, fields.quantity, fields.barcode)>> \o list

\* [...items, newItem] with newItem = { ...item, id: Date.now() }
AddItemList(list, fields, clock) ==
    Append(list, Item(clock, fields.name, fields.quantity, fields.barcode))

\* mutant of UpdateItemList: an item whose id is not in the list is added
UpsertItemList(list, item) ==
    IF \E i \in 1..Len(list) : list[i].id = item.id
    THEN [i \in 1..Len(list) |-> IF list[i].id = item.id THEN item ELSE list[i]]
    ELSE Append(list, item)

\* items.map(i => i.id === item.id ? item : i)
UpdateItemList(list, item) ==
    [i \in 1..Len(list) |-> IF list[i].id = item.id THEN item ELSE list[i]]

\* items.filter(i => i.id !== id)
DeleteItemList(list, id) ==
    SelectSeq(list, LAMBDA i : i.id # id)

\* the list an api call writes, computed from the list it was given
WrittenList(kind, list, arg, clock) ==
    CASE kind = "add" -> AddItemList(list, arg, clock)
      [] kind = "update" -> UpdateItemList(list, arg)
      [] kind = "delete" -> DeleteItemList(list, arg.id)
      [] OTHER -> list

----------------------------------------------------------------------------
(* Pure parts of the component *)

\* filterInventory: the list handed to setFilteredItems
FilterInventory(list, q) ==
    SelectSeq(list, LAMBDA item :
        \/ Includes(ToLowerCase(item.name), ToLowerCase(q))
        \/ (TruthyStr(item.barcode) /\ Includes(item.barcode, q)))

\* handleBarcodeDetected: the value handed to setEditItem
BarcodeTarget(list, code) ==
    LET k == FindIndex(list, LAMBDA item : item.barcode = code)
    IN  IF k # 0 THEN <<list[k]>>
        ELSE <<Item(0, EmptyStr, 1, code)>>

NoError == "null"
LoadError == "Error al cargar el inventario"

\* mutant of Snack: every notification is given the severity "success"
SnackAsSuccess(message, severity) ==
    [open |-> TRUE, message |-> message, severity |-> "success"]

Snack(message, severity) ==
    [open |-> TRUE, message |-> message, severity |-> severity]

NoSnack == [open |-> FALSE, message |-> "", severity |-> "success"]

\* the tree below the early returns "if (loading)" / "if (error)" is mounted
Rendered(l, e) == ~l /\ e = NoError

----------------------------------------------------------------------------
(* The event loop *)

NoArg == Item(0, EmptyStr, 0, EmptyStr)

Writes(kind) == kind \in {"add", "update", "delete"}

\* an api call that has reached "await new Promise(resolve => setTimeout(..))".
\* alone (history): no other writing call has been in flight with this one.
NewOp(kind, arg, alone) ==
    [kind |-> kind, pc |-> "timer", due |-> now + TimerDelay, snap |-> <<>>,
     arg |-> arg, alone |-> alone]

NoOtherWriter(q) == \A i \in 1..Len(q) : ~Writes(q[i].kind)

\* a writing call starts: the calls in flight are no longer alone
Overlapped(q) ==
    [i \in 1..Len(q) |-> IF Writes(q[i].kind) THEN [q[i] EXCEPT !.alone = FALSE]
                         ELSE q[i]]

RemoveAt(q, i) == SubSeq(q, 1, i - 1) \o SubSeq(q, i + 1, Len(q))

\* mutant of MicrotasksDrained: a task may run between the read of an api
\* call and its write
TasksInterleave == TRUE

\* Promise continuations (microtasks) run to completion before the next task
\* (a timer callback, a user event, a decode callback) is taken: nothing runs
\* between "await api.getItems()" returning the list and setItem writing it.
MicrotasksDrained == \A i \in 1..Len(ops) : ops[i].pc = "timer"

\* the user can act on the mounted tree
CanAct == MicrotasksDrained /\ Rendered(loading, error)

\* useEffect[isDialogOpen]: barcodeInputRef.current.focus() when the ref is set
FocusEffect(dialogBefore, dialogAfter, renderedAfter, f) ==
    IF dialogBefore # dialogAfter /\ renderedAfter THEN TRUE ELSE f

\* id: the id an api write was called with (0 for addItem and for the steps
\* that write nothing)
Step(ev, code, flag) == [ev |-> ev, code |-> code, flag |-> flag, id |-> 0]

WriteStep(op) == [Step(op.kind, EmptyStr, op.alone) EXCEPT !.id = op.arg.id]

Init ==
    /\ store \in InitialStores
    /\ now = ClockStart
    /\ ops = << NewOp("load", NoArg, TRUE) >>       \* useEffect(loadInventory, [])
    /\ items = <<>>
    /\ filteredItems = <<>>
    /\ loading = TRUE
    /\ error = NoError
    /\ editItem = NoItem
    /\ isDialogOpen = FALSE
    /\ snackbar = NoSnack
    /\ search = EmptyStr
    /\ isScannerOpen = FALSE
    /\ sessions = <<>>
    /\ focused = FALSE
    /\ unhandled = FALSE
    /\ calls = 0
    /\ serial = store
    /\ last = Step("mount", EmptyStr, FALSE)

\* the clock advances by a millisecond after a writing call was made (the
\* clock readings of two calls made one after the other may differ)
Tick ==
    /\ (now - ClockStart) % TimerDelay < MaxSkew
    /\ ops # <<>>
    /\ Writes(ops[Len(ops)].kind)
    /\ ops[Len(ops)].due = now + TimerDelay
    /\ now' = now + 1
    /\ UNCHANGED <<store, ops, items, filteredItems, loading, error, editItem,
                   isDialogOpen, snackbar, search, isScannerOpen, sessions,
                   focused, unhandled, calls, serial, last>>

\* the clock advances to the time the oldest pending timer is due
TickToDue ==
    /\ \E i \in 1..Len(ops) :
        /\ ops[i].pc = "timer"
        /\ \A j \in 1..(i - 1) : ops[j].pc # "timer"
        /\ ops[i].due > now
        /\ now' = ops[i].due
    /\ UNCHANGED <<store, ops, items, filteredItems, loading, error, editItem,
                   isDialogOpen, snackbar, search, isScannerOpen, sessions,
                   focused, unhandled, calls, serial, last>>

\* api.getItems: the timer fires (timers of equal delay fire in the order they
\* were set) and getItems resumes: it reads and parses the stored list, or the
\* read throws
TimerFire(ok) ==
    /\ MicrotasksDrained
    /\ \E i \in 1..Len(ops) :
        /\ ops[i].pc = "timer"
        /\ \A j \in 1..(i - 1) : ops[j].pc # "timer"
        /\ now >= ops[i].due
        /\ ops' = [ops EXCEPT ![i] =
                     IF ok THEN [@ EXCEPT !.pc = "resume", !.snap = store]
                     ELSE [@ EXCEPT !.pc = "throw"]]
    /\ last' = Step("other", EmptyStr, FALSE)
    /\ UNCHANGED <<store, now, items, filteredItems, loading, error, editItem,
                   isDialogOpen, snackbar, search, isScannerOpen, sessions,
                   focused, unhandled, calls, serial>>

\* loadInventory resumes after "await api.getItems()"
LoadResume(i) ==
    /\ ops[i].kind = "load"
    /\ ops[i].pc \in {"resume", "throw"}
    /\ ops' = RemoveAt(ops, i)
    /\ IF ops[i].pc = "resume"
       THEN /\ items' = ops[i].snap
            /\ filteredItems' = FilterInventory(ops[i].snap, search)
            /\ error' = error
       ELSE /\ error' = LoadError
            /\ UNCHANGED <<items, filteredItems>>
    /\ loading' = FALSE
    /\ last' = Step("other", EmptyStr, FALSE)
    /\ UNCHANGED <<store, now, editItem, isDialogOpen, snackbar, search,
                   isScannerOpen, sessions, focused, unhandled, calls, serial>>

\* handleSubmit resumes after "await api.updateItem(..)" / "await api.addItem(..)":
\* the api call writes the list it read and returns, then handleSubmit
\* notifies, calls loadInventory() and closes the dialog. No try/catch: when
\* the read or the write throws, the promise of handleSubmit rejects.
SubmitResume(i, wok) ==
    /\ ops[i].kind \in {"add", "update"}
    /\ ops[i].pc \in {"resume", "throw"}
    /\ IF ops[i].pc = "resume" /\ wok
       THEN /\ store' = WrittenList(ops[i].kind, ops[i].snap, ops[i].arg, now)
            /\ serial' = WrittenList(ops[i].kind, serial, ops[i].arg, now)
            /\ snackbar' = Snack(IF ops[i].kind = "update" THEN "Item actualizado"
                                 ELSE "Item creado", "success")
            /\ loading' = TRUE
            /\ ops' = Append(RemoveAt(ops, i), NewOp("load", NoArg, TRUE))
            /\ isDialogOpen' = FALSE
            /\ focused' = FALSE
            /\ last' = WriteStep(ops[i])
            /\ UNCHANGED unhandled
       ELSE /\ unhandled' = TRUE
            /\ ops' = RemoveAt(ops, i)
            /\ last' = Step("rejected", EmptyStr, ops[i].alone)
            /\ UNCHANGED <<store, serial, snackbar, loading, isDialogOpen,
                           focused>>
    /\ UNCHANGED <<now, items, filteredItems, error, editItem, search,
                   isScannerOpen, sessions, calls>>

\* mutant of DeleteResume: loadInventory() is not called after the delete
DeleteResumeNoReload(i, wok) ==
    /\ ops[i].kind = "delete"
    /\ ops[i].pc \in {"resume", "throw"}
    /\ IF ops[i].pc = "resume" /\ wok
       THEN /\ store' = WrittenList("delete", ops[i].snap, ops[i].arg, now)
            /\ serial' = WrittenList("delete", serial, ops[i].arg, now)
            /\ snackbar' = Snack("Item eliminado", "success")
            /\ last' = WriteStep(ops[i])
       ELSE /\ snackbar' = Snack("Error al eliminar el item", "error")
            /\ last' = Step("deleteFailed", EmptyStr, ops[i].alone)
            /\ UNCHANGED <<store, serial>>
    /\ ops' = RemoveAt(ops, i)
    /\ UNCHANGED <<now, items, filteredItems, loading, error, editItem,
                   isDialogOpen, search, isScannerOpen, sessions, focused,
                   unhandled, calls>>

\* deleteItem resumes after "await api.deleteItem(id)"
DeleteResume(i, wok) ==
    /\ ops[i].kind = "delete"
    /\ ops[i].pc \in {"resume", "throw"}
    /\ IF ops[i].pc = "resume" /\ wok
       THEN /\ store' = WrittenList("delete", ops[i].snap, ops[i].arg, now)
            /\ serial' = WrittenList("delete", serial, ops[i].arg, now)
            /\ loading' = TRUE
            /\ ops' = Append(RemoveAt(ops, i), NewOp("load", NoArg, TRUE))
            /\ snackbar' = Snack("Item eliminado", "success")
            /\ focused' = FALSE
            /\ last' = WriteStep(ops[i])
       ELSE /\ snackbar' = Snack("Error al eliminar el item", "error")
            /\ ops' = RemoveAt(ops, i)
            /\ last' = Step("deleteFailed", EmptyStr, ops[i].alone)
            /\ UNCHANGED <<store, serial, loading, focused>>
    /\ UNCHANGED <<now, items, filteredItems, error, editItem, isDialogOpen,
                   search, isScannerOpen, sessions, unhandled, calls>>

----------------------------------------------------------------------------
(* User intents *)

FormNames == {EmptyStr, <<"a">>}
FormQuantities == {0, 2, 3}
\* the barcode field as pre-filled (defaultValue={editItem?.barcode || ''}),
\* or cleared
FormBarcodes ==
    {EmptyStr} \cup {editItem[k].barcode : k \in {j \in 1..Len(editItem) :
                                                  TruthyStr(editItem[j].barcode)}}
Queries == {EmptyStr, <<"a">>, <<"x">>}
WedgeCodes == {EmptyStr, <<"x">>}
CameraCodes == {<<"x">>, <<"y">>}

\* "+ Agregar"
ClickAdd ==
    /\ CanAct
    /\ isDialogOpen' = TRUE
    /\ editItem' = NoItem
    /\ focused' = FocusEffect(isDialogOpen, TRUE, TRUE, FALSE)
    /\ last' = Step("other", EmptyStr, FALSE)
    /\ UNCHANGED <<store, now, ops, items, filteredItems, loading, error,
                   snackbar, search, isScannerOpen, sessions, unhandled, calls, serial>>

\* "Editar" on a row of the rendered list
ClickEdit(k) ==
    /\ CanAct
    /\ k \in 1..Len(filteredItems)
    /\ editItem' = <<filteredItems[k]>>
    /\ isDialogOpen' = TRUE
    /\ focused' = FocusEffect(isDialogOpen, TRUE, TRUE, FALSE)
    /\ last' = Step("other", EmptyStr, FALSE)
    /\ UNCHANGED <<store, now, ops, items, filteredItems, loading, error,
                   snackbar, search, isScannerOpen, sessions, unhandled, calls, serial>>

\* "Eliminar" on a row of the rendered list: deleteItem(item.id) up to its await
ClickDelete(k) ==
    /\ CanAct
    /\ k \in 1..Len(filteredItems)
    /\ Len(ops) < MaxInFlight
    /\ calls' = calls + 1
    /\ ops' = Append(Overlapped(ops),
                     NewOp("delete", Item(filteredItems[k].id, EmptyStr, 0, EmptyStr),
                           NoOtherWriter(ops)))
    /\ focused' = FALSE
    /\ last' = Step("other", EmptyStr, FALSE)
    /\ UNCHANGED <<store, now, items, filteredItems, loading, error, editItem,
                   isDialogOpen, snackbar, search, isScannerOpen, sessions,
                   unhandled, serial>>

\* mutant of ValidSubmit: the quantity is not checked
ValidSubmitNameOnly(name, quantity) == name # EmptyStr

\* the guard of handleSubmit: if (name && quantity > 0)
ValidSubmit(name, quantity) == name # EmptyStr /\ quantity > 0

\* the form is submitted: handleSubmit up to its await
Submit(name, quantity, barcode) ==
    /\ CanAct
    /\ isDialogOpen
    /\ IF ValidSubmit(name, quantity)
       THEN /\ Len(ops) < MaxInFlight
            /\ calls' = calls + 1
            /\ ops' = Append(Overlapped(ops),
                 IF editItem # NoItem /\ editItem[1].id # 0
                 THEN NewOp("update",
                            Item(editItem[1].id, name, quantity, barcode),
                            NoOtherWriter(ops))
                 ELSE NewOp("add", Item(0, name, quantity, barcode),
                            NoOtherWriter(ops)))
            /\ last' = Step("submit", EmptyStr, TRUE)
       ELSE /\ ops' = ops
            /\ calls' = calls
            /\ last' = Step("submit", EmptyStr, FALSE)
    /\ focused' = FALSE
    /\ UNCHANGED <<store, now, items, filteredItems, loading, error, editItem,
                   isDialogOpen, snackbar, search, isScannerOpen, sessions,
                   unhandled, serial>>

\* "Cancelar"
Cancel ==
    /\ CanAct
    /\ isDialogOpen
    /\ isDialogOpen' = FALSE
    /\ focused' = FocusEffect(TRUE, FALSE, TRUE, FALSE)
    /\ last' = Step("other", EmptyStr, FALSE)
    /\ UNCHANGED <<store, now, ops, items, filteredItems, loading, error,
                   editItem, snackbar, search, isScannerOpen, sessions, unhandled, calls, serial>>

\* mutant of SetSearch: the filter overwrites the full list, as the
\* filterInventory of lines 68-74 does with setItems(filteredItems)
SetSearchShrinks(q) ==
    /\ CanAct
    /\ q # search
    /\ search' = q
    /\ items' = FilterInventory(items, q)
    /\ filteredItems' = FilterInventory(items, q)
    /\ focused' = FALSE
    /\ last' = Step("other", EmptyStr, FALSE)
    /\ UNCHANGED <<store, now, ops, loading, error, editItem, isDialogOpen,
                   snackbar, isScannerOpen, sessions, unhandled, calls, serial>>

\* the search box changes; useEffect[items, search] runs filterInventory
SetSearch(q) ==
    /\ CanAct
    /\ q # search
    /\ search' = q
    /\ filteredItems' = FilterInventory(items, q)
    /\ focused' = FALSE
    /\ last' = Step("other", EmptyStr, FALSE)
    /\ UNCHANGED <<store, now, ops, items, loading, error, editItem,
                   isDialogOpen, snackbar, isScannerOpen, sessions, unhandled, calls, serial>>

\* the hidden input takes focus (Tab)
FocusWedge ==
    /\ CanAct
    /\ ~focused
    /\ focused' = TRUE
    /\ last' = Step("other", EmptyStr, FALSE)
    /\ UNCHANGED <<store, now, ops, items, filteredItems, loading, error,
                   editItem, isDialogOpen, snackbar, search, isScannerOpen,
                   sessions, unhandled, calls, serial>>

\* onKeyDown with e.key === 'Enter' on the hidden input, code being the text
\* typed into it since it was last cleared:
\* handleBarcodeDetected(e.currentTarget.value); e.currentTarget.value = ''
WedgeEnter(code) ==
    /\ CanAct
    /\ focused
    /\ editItem' = BarcodeTarget(items, code)
    /\ isDialogOpen' = TRUE
    /\ last' = Step("wedge-enter", code, TRUE)
    /\ UNCHANGED <<store, now, ops, items, filteredItems, loading, error,
                   snackbar, search, isScannerOpen, sessions, focused,
                   unhandled, calls, serial>>

----------------------------------------------------------------------------
(* Camera scanner *)

\* "Escanear codigo": setIsScannerOpen(true); useEffect[isScannerOpen] calls
\* initScanner, which runs up to "await listVideoInputDevices()". The decode
\* callback it will register calls the handleBarcodeDetected of this render,
\* which reads the items of this render.
OpenScanner ==
    /\ CanAct
    /\ ~isScannerOpen
    /\ Len(sessions) < MaxSessions
    /\ isScannerOpen' = TRUE
    /\ sessions' = Append(sessions, [items |-> items, state |-> "starting"])
    /\ focused' = FALSE
    /\ last' = Step("other", EmptyStr, FALSE)
    /\ UNCHANGED <<store, now, ops, items, filteredItems, loading, error,
                   editItem, isDialogOpen, snackbar, search, unhandled, calls,
                   serial>>

\* initScanner resumes after the await: decodeFromVideoDevice starts a decode
\* session on the camera, or the enumeration failed / returned no device and
\* the catch block notifies
ScannerStart(i, ok) ==
    /\ MicrotasksDrained
    /\ i \in 1..Len(sessions)
    /\ sessions[i].state = "starting"
    /\ IF ok
       THEN /\ sessions' = [sessions EXCEPT ![i].state = "active"]
            /\ UNCHANGED snackbar
       ELSE /\ sessions' = RemoveAt(sessions, i)
            /\ snackbar' = Snack("Error al iniciar el escaner", "error")
    /\ last' = Step("other", EmptyStr, FALSE)
    /\ UNCHANGED <<store, now, ops, items, filteredItems, loading, error,
                   editItem, isDialogOpen, search, isScannerOpen, focused, unhandled, calls, serial>>

\* initScanner after the await, permission refused: listVideoInputDevices
\* returned a device and decodeFromVideoDevice was called, not awaited; the
\* promise it returned rejects when getUserMedia is refused, outside the
\* try/catch, which has already been left
PermissionDenied(i) ==
    /\ MicrotasksDrained
    /\ i \in 1..Len(sessions)
    /\ sessions[i].state = "starting"
    /\ sessions' = RemoveAt(sessions, i)
    /\ unhandled' = TRUE
    /\ last' = Step("denied", EmptyStr, isScannerOpen)
    /\ UNCHANGED <<store, now, ops, items, filteredItems, loading, error,
                   editItem, isDialogOpen, snackbar, search, isScannerOpen,
                   focused, calls, serial>>

\* "Cerrar" on the overlay: setIsScannerOpen(false); the effect cleanup is empty
CloseScanner ==
    /\ CanAct
    /\ isScannerOpen
    /\ isScannerOpen' = FALSE
    /\ focused' = FALSE
    /\ last' = Step("other", EmptyStr, FALSE)
    /\ UNCHANGED <<store, now, ops, items, filteredItems, loading, error,
                   editItem, isDialogOpen, snackbar, search, sessions, unhandled, calls, serial>>

\* a running decode session reports a result to its callback:
\* handleBarcodeDetected(result.getText()); setIsScannerOpen(false)
Decode(i, code) ==
    /\ MicrotasksDrained
    /\ i \in 1..Len(sessions)
    /\ sessions[i].state = "active"
    /\ editItem' = BarcodeTarget(sessions[i].items, code)
    /\ isDialogOpen' = TRUE
    /\ isScannerOpen' = FALSE
    /\ focused' = FocusEffect(isDialogOpen, TRUE, Rendered(loading, error), focused)
    /\ last' = Step("decode", code, isScannerOpen)
    /\ UNCHANGED <<store, now, ops, items, filteredItems, loading, error,
                   snackbar, search, sessions, unhandled, calls, serial>>

----------------------------------------------------------------------------

\* the number of store calls explored is capped
CallsBelow(cap) == calls' <= cap

Next ==
    \/ Tick
    \/ TickToDue
    \/ \E ok \in BOOLEAN : TimerFire(ok)
    \/ \E i \in 1..Len(ops) : LoadResume(i)
    \/ \E i \in 1..Len(ops), wok \in BOOLEAN : SubmitResume(i, wok)
    \/ \E i \in 1..Len(ops), wok \in BOOLEAN : DeleteResume(i, wok)
    \/ ClickAdd
    \/ \E k \in 1..Len(filteredItems) : ClickEdit(k)
    \/ \E k \in 1..Len(filteredItems) : ClickDelete(k) /\ CallsBelow(MaxCalls)
    \/ \E n \in FormNames, q \in FormQuantities, b \in FormBarcodes :
          Submit(n, q, b) /\ CallsBelow(MaxCalls)
    \/ Cancel
    \/ \E q \in Queries : SetSearch(q)
    \/ FocusWedge
    \/ \E c \in WedgeCodes : WedgeEnter(c)
    \/ OpenScanner
    \/ \E i \in 1..Len(sessions), ok \in BOOLEAN : ScannerStart(i, ok)
    \/ \E i \in 1..Len(sessions) : PermissionDenied(i)
    \/ CloseScanner
    \/ \E i \in 1..Len(sessions), c \in CameraCodes : Decode(i, c)

Spec == Init /\ [][Next]_vars

----------------------------------------------------------------------------
(* The state space of Spec is too large to enumerate. The claims are checked
   on two parts of it, in which storage and camera never fail: the store and
   the form (SpecStore, and SpecStoreDeep with one more store call), and the
   two barcode channels with a list that changes under them (SpecScan). *)

NextStore ==
    \/ Tick
    \/ TickToDue
    \/ TimerFire(TRUE)
    \/ \E i \in 1..Len(ops) : LoadResume(i)
    \/ \E i \in 1..Len(ops) : SubmitResume(i, TRUE)
    \/ \E i \in 1..Len(ops) : DeleteResume(i, TRUE)
    \/ ClickAdd
    \/ \E k \in 1..Len(filteredItems) : ClickEdit(k)
    \/ \E k \in 1..Len(filteredItems) : ClickDelete(k) /\ CallsBelow(MaxCalls)
    \/ \E n \in FormNames, q \in FormQuantities, b \in FormBarcodes :
          Submit(n, q, b) /\ CallsBelow(MaxCalls)
    \/ Cancel

SpecStore == Init /\ [][NextStore]_vars

\* the same actions, with one more store call
NextStoreDeep ==
    \/ Tick
    \/ TickToDue
    \/ TimerFire(TRUE)
    \/ \E i \in 1..Len(ops) : LoadResume(i)
    \/ \E i \in 1..Len(ops) : SubmitResume(i, TRUE)
    \/ \E i \in 1..Len(ops) : DeleteResume(i, TRUE)
    \/ ClickAdd
    \/ \E k \in 1..Len(filteredItems) : ClickEdit(k)
    \/ \E k \in 1..Len(filteredItems) : ClickDelete(k) /\ CallsBelow(MaxCallsDeep)
    \/ \E n \in FormNames, q \in FormQuantities, b \in FormBarcodes :
          Submit(n, q, b) /\ CallsBelow(MaxCallsDeep)
    \/ Cancel

SpecStoreDeep == Init /\ [][NextStoreDeep]_vars

NextScan ==
    \/ TickToDue
    \/ TimerFire(TRUE)
    \/ \E i \in 1..Len(ops) : LoadResume(i)
    \/ \E i \in 1..Len(ops) : DeleteResume(i, TRUE)
    \/ \E k \in 1..Len(filteredItems) : ClickDelete(k) /\ CallsBelow(MaxCalls)
    \/ ClickAdd
    \/ \E k \in 1..Len(filteredItems) : ClickEdit(k)
    \/ Cancel
    \/ FocusWedge
    \/ \E c \in WedgeCodes : WedgeEnter(c)
    \/ OpenScanner
    \/ \E i \in 1..Len(sessions) : ScannerStart(i, TRUE)
    \/ CloseScanner
    \/ \E i \in 1..Len(sessions), c \in CameraCodes : Decode(i, c)

SpecScan == Init /\ [][NextScan]_vars

\* The filter on its own: any stored list of up to FilterMaxLen items, with
\* and without barcode, once the first load has completed, and any query
\* typed into the search box.
FilterNames == {<<"A">>, <<"a", "B">>, <<"b">>}
FilterBarcodes == {Undefined, EmptyStr, <<"A", "b">>}
FilterQueries == {EmptyStr, <<"a">>, <<"A">>, <<"b">>, <<"a", "b">>, <<"a", "B">>}

FilterLists(maxLen) ==
    UNION { { [i \in 1..n |-> Item(i, f[i][1], 1, f[i][2])] :
                f \in [1..n -> FilterNames \X FilterBarcodes] } :
            n \in 0..maxLen }

InitFilter ==
    /\ store \in FilterLists(FilterMaxLen)
    /\ now = ClockStart + TimerDelay
    /\ ops = <<>>
    /\ items = store
    /\ filteredItems = FilterInventory(store, EmptyStr)
    /\ loading = FALSE
    /\ error = NoError
    /\ editItem = NoItem
    /\ isDialogOpen = FALSE
    /\ snackbar = NoSnack
    /\ search = EmptyStr
    /\ isScannerOpen = FALSE
    /\ sessions = <<>>
    /\ focused = FALSE
    /\ unhandled = FALSE
    /\ calls = 0
    /\ serial = store
    /\ last = Step("other", EmptyStr, FALSE)

NextFilter ==
    \E q \in FilterQueries : SetSearch(q)

SpecFilter == InitFilter /\ [][NextFilter]_vars

\* the store, the form and the search box: reloads and search-text changes
NextView ==
    \/ TickToDue
    \/ TimerFire(TRUE)
    \/ \E i \in 1..Len(ops) : LoadResume(i)
    \/ \E i \in 1..Len(ops) : SubmitResume(i, TRUE)
    \/ \E i \in 1..Len(ops) : DeleteResume(i, TRUE)
    \/ ClickAdd
    \/ \E k \in 1..Len(filteredItems) : ClickEdit(k)
    \/ \E k \in 1..Len(filteredItems) : ClickDelete(k) /\ CallsBelow(MaxCalls)
    \/ \E n \in FormNames, q \in FormQuantities, b \in FormBarcodes :
          Submit(n, q, b) /\ CallsBelow(MaxCalls)
    \/ Cancel
    \/ \E q \in Queries : SetSearch(q)

SpecView == Init /\ [][NextView]_vars

\* the form and the keyboard-wedge input: items created through the form,
\* then captured codes resolved against the reloaded list
NextWedge ==
    \/ TickToDue
    \/ TimerFire(TRUE)
    \/ \E i \in 1..Len(ops) : LoadResume(i)
    \/ \E i \in 1..Len(ops) : SubmitResume(i, TRUE)
    \/ ClickAdd
    \/ \E k \in 1..Len(filteredItems) : ClickEdit(k)
    \/ \E n \in FormNames, q \in FormQuantities, b \in FormBarcodes :
          Submit(n, q, b) /\ CallsBelow(MaxCalls)
    \/ Cancel
    \/ FocusWedge
    \/ \E c \in WedgeCodes : WedgeEnter(c)

SpecWedge == Init /\ [][NextWedge]_vars

\* the store and the form, with a storage that may fail
NextFault ==
    \/ TickToDue
    \/ \E ok \in BOOLEAN : TimerFire(ok)
    \/ \E i \in 1..Len(ops) : LoadResume(i)
    \/ \E i \in 1..Len(ops), wok \in BOOLEAN : SubmitResume(i, wok)
    \/ \E i \in 1..Len(ops), wok \in BOOLEAN : DeleteResume(i, wok)
    \/ ClickAdd
    \/ \E k \in 1..Len(filteredItems) : ClickEdit(k)
    \/ \E k \in 1..Len(filteredItems) : ClickDelete(k) /\ CallsBelow(MaxCalls)
    \/ \E n \in FormNames, q \in FormQuantities, b \in FormBarcodes :
          Submit(n, q, b) /\ CallsBelow(MaxCalls)
    \/ Cancel

SpecFault == Init /\ [][NextFault]_vars

\* the scanner overlay and the dialog, with a camera that may fail to start
NextCamera ==
    \/ TickToDue
    \/ TimerFire(TRUE)
    \/ \E i \in 1..Len(ops) : LoadResume(i)
    \/ ClickAdd
    \/ \E k \in 1..Len(filteredItems) : ClickEdit(k)
    \/ Cancel
    \/ FocusWedge
    \/ \E c \in WedgeCodes : WedgeEnter(c)
    \/ OpenScanner
    \/ \E i \in 1..Len(sessions), ok \in BOOLEAN : ScannerStart(i, ok)
    \/ \E i \in 1..Len(sessions) : PermissionDenied(i)
    \/ CloseScanner
    \/ \E i \in 1..Len(sessions), c \in CameraCodes : Decode(i, c)

SpecCamera == Init /\ [][NextCamera]_vars

----------------------------------------------------------------------------
(* Claims *)

ActiveSessions == {i \in 1..Len(sessions) : sessions[i].state = "active"}

\* C1: whenever the scanner overlay is closed, no decode session is active
\* (the session started for an overlay is stopped when the overlay closes).
C1_CameraReleasedWhenClosed ==
    ~isScannerOpen => ActiveSessions = {}

\* C2: the number of started-and-not-stopped decode sessions is never
\* greater than 1.
C2_AtMostOneSession ==
    Cardinality(ActiveSessions) <= 1

\* C3: once the overlay is closed, no camera recognition changes the edit
\* target or opens the dialog.
C3_NoResolutionAfterClose ==
    [][ (~isScannerOpen /\ \E i \in 1..Len(sessions), c \in CameraCodes : Decode(i, c))
        => (editItem' = editItem /\ isDialogOpen' = isDialogOpen) ]_vars

\* the resolution the claim describes: the first item of the list with that
\* barcode, else a new item carrying only the barcode
FirstWithBarcode(list, code) ==
    CHOOSE i \in 1..Len(list) :
        list[i].barcode = code /\ \A j \in 1..Len(list) : list[j].barcode = code => i <= j

ResolvedTarget(list, code) ==
    IF \E i \in 1..Len(list) : list[i].barcode = code
    THEN list[FirstWithBarcode(list, code)]
    ELSE [id |-> 0, name |-> EmptyStr, quantity |-> 1, barcode |-> code]

\* C4: after a code is resolved, by the wedge path or by the camera path, the
\* dialog is open and the edit target is the first item of the currently
\* loaded list with that barcode, or the new item {0, "", 1, code} if none.
C4_ResolutionAgainstCurrentList ==
    last.ev \in {"wedge-enter", "decode"} =>
        /\ isDialogOpen
        /\ editItem = <<ResolvedTarget(items, last.code)>>

\* handleSubmit is called with an empty name or a quantity <= 0
InvalidSubmitStep ==
    \E n \in FormNames, q \in FormQuantities, b \in FormBarcodes :
        (n = EmptyStr \/ q <= 0) /\ Submit(n, q, b)

\* C5: a submit whose name is empty or whose quantity is <= 0 issues no
\* addItem/updateItem (store and calls in flight unchanged), starts no
\* reload, emits no notification, and leaves the dialog open with the same
\* edit target.
C5_InvalidSubmitChangesNothing ==
    [][ InvalidSubmitStep =>
            /\ UNCHANGED <<store, ops, calls, loading, items, snackbar, editItem>>
            /\ isDialogOpen' ]_vars

C5_Witness ==
    last = Step("submit", EmptyStr, FALSE) /\ isDialogOpen

\* the write of api call i, made while no other writing call was in flight
\* between its call and its write
WriteAlone(i, kind) ==
    /\ ops[i].kind = kind
    /\ ops[i].pc = "resume"
    /\ ops[i].alone
    /\ \/ SubmitResume(i, TRUE)
       \/ DeleteResume(i, TRUE)

ReloadStarted ==
    /\ loading'
    /\ ops' # <<>>
    /\ ops'[Len(ops')].kind = "load"
    /\ ops'[Len(ops')].pc = "timer"

\* C6 (update): a valid submit in edit mode, alone, whose id is in the store,
\* replaces exactly one stored item, the one with that id, by the submitted
\* fields under the same id at the same position, and leaves every other
\* stored item and the length unchanged; the dialog closes, a reload starts.
\* C6 (create): a valid submit in create mode, alone, appends exactly one
\* item and changes no existing item; the dialog closes, a reload starts.
C6_SubmitRoutingAndEffect ==
    [][ \A i \in 1..Len(ops) :
          /\ ( WriteAlone(i, "update")
               /\ (\E k \in 1..Len(store) : store[k].id = ops[i].arg.id)
               => /\ Len(store') = Len(store)
                  /\ \E k \in 1..Len(store) :
                       /\ store[k].id = ops[i].arg.id
                       /\ store'[k] = ops[i].arg
                       /\ \A j \in (1..Len(store)) \ {k} : store'[j] = store[j]
                  /\ ~isDialogOpen'
                  /\ ReloadStarted )
          /\ ( WriteAlone(i, "add")
               => /\ Len(store') = Len(store) + 1
                  /\ \A j \in 1..Len(store) : store'[j] = store[j]
                  /\ ~isDialogOpen'
                  /\ ReloadStarted ) ]_vars

\* C7: whatever the timing of the intents, the stored list is the result of
\* applying the completed operations one at a time, in the order of their
\* writes (so no completed delete is undone and no completed create is
\* dropped by another operation's write).
C7_NoLostUpdates ==
    store = serial

\* two writing calls were in flight together and both have written
C7_Witness ==
    /\ last.ev \in {"add", "update", "delete"}
    /\ ~last.flag
    /\ NoOtherWriter(ops)
    /\ store # <<>>

\* C8: no two stored items have the same id.
C8_UniqueIds ==
    \A i, j \in 1..Len(store) : i # j => store[i].id # store[j].id

\* C9: run one at a time, addItem(fields) leaves the previous list followed
\* by exactly one new item with those fields and an id no previously stored
\* item has; deleteItem(id) leaves no item with that id and all other items,
\* unchanged and in the same order.
C9_CreateDeleteSemantics ==
    [][ \A i \in 1..Len(ops) :
          /\ ( WriteAlone(i, "add")
               => /\ Len(store') = Len(store) + 1
                  /\ SubSeq(store', 1, Len(store)) = store
                  /\ store'[Len(store')].name = ops[i].arg.name
                  /\ store'[Len(store')].quantity = ops[i].arg.quantity
                  /\ store'[Len(store')].barcode = ops[i].arg.barcode
                  /\ \A j \in 1..Len(store) : store[j].id # store'[Len(store')].id )
          /\ ( WriteAlone(i, "delete")
               => LET kept == {j \in 1..Len(store) : store[j].id # ops[i].arg.id}
                  IN  /\ \A j \in 1..Len(store') : store'[j].id # ops[i].arg.id
                      /\ Len(store') = Cardinality(kept)
                      /\ \A j \in kept :
                           store'[Cardinality({k \in kept : k <= j})] = store[j] ) ]_vars

\* an addItem run alone has appended to a list that was not empty
C9_Witness ==
    /\ last = Step("add", EmptyStr, TRUE)
    /\ Len(store) >= 2

\* C10: if the dialog is closed then the stored edit target is null.
C10_TargetNullWhileClosed ==
    ~isDialogOpen => editItem = NoItem

\* a load completes successfully: loadInventory resumes with the list read
LoadSucceeds ==
    \E i \in 1..Len(ops) :
        ops[i].kind = "load" /\ ops[i].pc = "resume" /\ LoadResume(i)

\* C11: a failed load leaves the error message shown and no item list, and
\* once a later load completes successfully the error state is cleared (the
\* item list is rendered again when no load is pending).
C11_ErrorClearedByReload ==
    [][ /\ (\E i \in 1..Len(ops) : ops[i].pc = "throw" /\ LoadResume(i))
            => (error' # NoError /\ ~Rendered(loading', error'))
        /\ LoadSucceeds => error' = NoError ]_vars

\* C12: no failure of a storage or camera call, in load, submit, delete or
\* scanner start, ends in an unhandled exception or promise rejection.
C12_NoUnhandledRejection ==
    ~unhandled

\* initScanner fails for session i: no device enumerated (or the enumeration
\* rejected), or permission refused
ScannerStartFails(i) ==
    ScannerStart(i, FALSE) \/ PermissionDenied(i)

\* C13: when the camera decode fails to start (no device, or permission
\* denied) an error notification is emitted, the overlay stays as it is until
\* the user dismisses it, and the item list, the dialog state and the edit
\* target are unchanged.
C13_ScannerStartFailureNotified ==
    [][ (\E i \in 1..Len(sessions) : ScannerStartFails(i))
        => /\ snackbar'.open /\ snackbar'.severity = "error"
           /\ UNCHANGED <<isScannerOpen, items, filteredItems, isDialogOpen,
                          editItem>> ]_vars

\* the store operation of delete call i fails: the read of the list throws,
\* or the write does
DeleteFails(i) ==
    /\ ops[i].kind = "delete"
    /\ \E wok \in BOOLEAN : (ops[i].pc = "throw" \/ ~wok) /\ DeleteResume(i, wok)

LoadsInFlight(q) == Cardinality({j \in 1..Len(q) : q[j].kind = "load"})

\* C14: when the store operation of a delete fails, an error notification is
\* emitted, the stored list and the displayed item list are unchanged, and no
\* reload is started.
C14_FailedDeleteChangesNothing ==
    [][ \A i \in 1..Len(ops) :
          DeleteFails(i)
          => /\ snackbar'.open /\ snackbar'.severity = "error"
             /\ UNCHANGED <<store, items, filteredItems, loading>>
             /\ LoadsInFlight(ops') = LoadsInFlight(ops) ]_vars

\* a delete of a stored item has failed
C14_Witness ==
    /\ last.ev = "deleteFailed"
    /\ snackbar.severity = "error"
    /\ store # <<>>
    /\ items = store

\* the two letters are the same up to case
SameLetter(c, d) ==
    \/ c = d
    \/ {c, d} = {"A", "a"}
    \/ {c, d} = {"B", "b"}

ContainsNoCase(s, q) ==
    \E k \in 0..(Len(s) - Len(q)) :
        \A j \in 1..Len(q) : SameLetter(s[k + j], q[j])

ContainsExact(s, q) ==
    \E k \in 0..(Len(s) - Len(q)) : SubSeq(s, k + 1, k + Len(q)) = q

Matches(item, q) ==
    \/ ContainsNoCase(item.name, q)
    \/ (item.barcode # Undefined /\ ContainsExact(item.barcode, q))

\* C15: the filtered list is exactly the items whose name contains the query
\* case-insensitively or whose barcode contains it case-sensitively, in their
\* original relative order; for the empty query it is the whole list, items
\* without barcode included.
C15_FilterCorrect ==
    LET kept == {i \in 1..Len(items) : Matches(items[i], search)}
    IN  /\ Len(filteredItems) = Cardinality(kept)
        /\ \A i \in kept :
              filteredItems[Cardinality({k \in kept : k <= i})] = items[i]
        /\ search = EmptyStr => filteredItems = items

\* query "a" on three items: the first is kept by its name "A", the second
\* is dropped although its barcode is "Ab", the third is kept by its name "aB"
C15_Witness ==
    /\ search = <<"a">>
    /\ Len(items) = 3
    /\ Len(filteredItems) = 2
    /\ filteredItems[1] = items[1] /\ items[1].name = <<"A">>
    /\ items[1].barcode = Undefined
    /\ items[2].name = <<"b">> /\ items[2].barcode = <<"A", "b">>
    /\ filteredItems[2] = items[3] /\ items[3].name = <<"a", "B">>

\* sub is list with some elements left out, the others in the same order
IsSubsequence(sub, list) ==
    \E f \in [1..Len(sub) -> 1..Len(list)] :
        /\ \A i, j \in 1..Len(sub) : i < j => f[i] < f[j]
        /\ \A i \in 1..Len(sub) : sub[i] = list[f[i]]

\* C16: after reloads and search-text changes the displayed filteredItems is
\* a subsequence of the loaded list in the same relative order, and a change
\* of the search text (the filtering) leaves the loaded list as it is.
C16_FilteredIsSubsequence ==
    [][ /\ IsSubsequence(filteredItems, items)
        /\ IsSubsequence(filteredItems', items')
        /\ search' # search => items' = items ]_vars

\* after a store change and its reload, a query hides part of the list
C16_Witness ==
    /\ calls >= 1
    /\ ops = <<>>
    /\ search # EmptyStr
    /\ filteredItems # <<>>
    /\ Len(filteredItems) < Len(items)

\* C17: every time the dialog opens (Add, Edit on a row, or a barcode
\* resolution) the hidden keyboard-wedge input has focus right afterwards.
C17_WedgeFocusedWhenDialogOpens ==
    [][ (~isDialogOpen /\ isDialogOpen') => focused' ]_vars

\* a barcode resolution (wedge Enter or camera recognition) runs while the
\* dialog is open
ResolutionWhileDialogOpen ==
    /\ isDialogOpen
    /\ \/ \E c \in WedgeCodes : WedgeEnter(c)
       \/ \E i \in 1..Len(sessions), c \in CameraCodes : Decode(i, c)

\* the id a valid submit would write to: "editItem && editItem.id", 0 when
\* the submit would create
TargetId(e) == IF e = NoItem THEN 0 ELSE e[1].id

\* C19: from the moment the dialog opens until it is submitted or cancelled
\* the edit target does not change: a wedge Enter or a camera recognition
\* arriving while the dialog is open does not redirect the pending submit.
C19_TargetStableWhileDialogOpen ==
    [][ ResolutionWhileDialogOpen => TargetId(editItem') = TargetId(editItem) ]_vars

\* api.updateItem call i writes, and no stored item has the id it was given
UpdateOfAbsentId(i) ==
    /\ ops[i].kind = "update"
    /\ ops[i].pc = "resume"
    /\ \A k \in 1..Len(store) : store[k].id # ops[i].arg.id
    /\ SubmitResume(i, TRUE)

C20_QuiescentConsistency ==
    ops = <<>> => (items = store /\ ~loading)

\* two store calls were made early enough for their two reloads to overlap,
\* and everything has completed
C20_Witness ==
    /\ ops = <<>>
    /\ calls >= 2
    /\ now < ClockStart + 4 * TimerDelay
    /\ ~loading
    /\ last.ev = "other"

\* C21: a capture event (Enter on the wedge input, the empty buffer
\* included, or a camera recognition) opens edit mode only for an item that
\* has a non-empty barcode.
C21_ResolutionNeedsBarcode ==
    (last.ev \in {"wedge-enter", "decode"} /\ TargetId(editItem) # 0)
        => TruthyStr(editItem[1].barcode)

====
